---- MODULE Spec2Model ----
(***************************************************************************)
(* Model of plan.py: the timetable parser parse_excel_to_plan, the SQL     *)
(* emitter write_sql and the part of App.run that drives them.             *)
(*                                                                         *)
(* Text is modelled as a sequence of characters.  A character is a string: *)
(* an ASCII character is itself, the others carry a name in angle          *)
(* brackets ("<LF>", "<en-dash>", "<l-stroke>", ...).                        *)
(***************************************************************************)
EXTENDS Integers, Sequences, FiniteSets, TLC

\* ------------------------------------------------------------------------
\* Characters and strings
\* ------------------------------------------------------------------------

\* A literal of ASCII characters as a sequence of characters.
Str(s) == [i \in 1..Len(s) |-> SubSeq(s, i, i)]

\* Python's None; no sequence of characters equals it.
None == <<"<None>">>

DigitChars == Str("0123456789")

\* \d of the re module, on the characters of the model.
IsDigit(c) == \E k \in 1..Len(DigitChars) : DigitChars[k] = c

\* \s of the re module and the characters str.strip() removes.
IsSpace(c) == c \in {" ", "<TAB>", "<LF>", "<CR>"}

\* The class [-–]: hyphen or en dash.
IsDash(c) == c \in {"-", "<en-dash>"}

UpperChars == Str("ABCDEFGHIJKLMNOPQRSTUVWXYZ") \o <<"<S-acute>", "<L-stroke>", "<A-ogonek>">>

LowerChars == Str("abcdefghijklmnopqrstuvwxyz") \o <<"<s-acute>", "<l-stroke>", "<a-ogonek>">>

LowerChar(c) ==
    IF \E k \in 1..Len(UpperChars) : UpperChars[k] = c
    THEN LowerChars[CHOOSE k \in 1..Len(UpperChars) : UpperChars[k] = c]
    ELSE c

UpperChar(c) ==
    IF \E k \in 1..Len(LowerChars) : LowerChars[k] = c
    THEN UpperChars[CHOOSE k \in 1..Len(LowerChars) : LowerChars[k] = c]
    ELSE c

\* str.lower()
lower(s) == [k \in 1..Len(s) |-> LowerChar(s[k])]

\* Faulty variant of capitalize: the text is left as it is.
KeepCase(s) == s

\* str.capitalize(): first character upper case, the rest lower case.
capitalize(s) ==
    IF Len(s) = 0 THEN s ELSE <<UpperChar(s[1])>> \o lower(Tail(s))

RECURSIVE lstrip(_)
lstrip(s) ==
    IF Len(s) > 0 /\ IsSpace(s[1]) THEN lstrip(Tail(s)) ELSE s

RECURSIVE rstrip(_)
rstrip(s) ==
    IF Len(s) > 0 /\ IsSpace(s[Len(s)]) THEN rstrip(SubSeq(s, 1, Len(s) - 1)) ELSE s

\* str.strip()
strip(s) == rstrip(lstrip(s))

\* str.startswith(p)
startswith(s, p) == Len(s) >= Len(p) /\ SubSeq(s, 1, Len(p)) = p

\* str.replace(c, r) for a single character c and a text r.
RECURSIVE replace(_, _, _)
replace(s, c, r) ==
    IF Len(s) = 0 THEN <<>>
    ELSE (IF s[1] = c THEN r ELSE <<s[1]>>) \o replace(Tail(s), c, r)

\* The character at position i (1-based), "" past either end.
CharAt(s, i) == IF i \in 1..Len(s) THEN s[i] ELSE ""

\* Positions i .. i+k-1 of s exist and hold digits.
DigitsAt(s, i, k) ==
    /\ i >= 1
    /\ i + k - 1 <= Len(s)
    /\ \A j \in i..(i + k - 1) : IsDigit(s[j])

\* \s* from position i: the first position at or after i that holds no space.
RECURSIVE SkipWs(_, _)
SkipWs(s, i) ==
    IF i <= Len(s) /\ IsSpace(s[i]) THEN SkipWs(s, i + 1) ELSE i

\* [^\s–-]+ from position i: the first position that holds a space or a dash.
RECURSIVE SkipToken(_, _)
SkipToken(s, i) ==
    IF i <= Len(s) /\ ~IsSpace(s[i]) /\ ~IsDash(s[i]) THEN SkipToken(s, i + 1) ELSE i

\* \d{1,2}\. at position i: the position after the dot, 0 when it does not match.
DayDot(s, i) ==
    IF DigitsAt(s, i, 2) /\ CharAt(s, i + 2) = "." THEN i + 3
    ELSE IF DigitsAt(s, i, 1) /\ CharAt(s, i + 1) = "." THEN i + 2
    ELSE 0

\* HEADER_CLASS_RE.match(cell): group 1 of the match, None when there is none.
\* ^\s*([^\s–-]+)\s*[-–]\s*\d{1,2}\.\d{1,2}\.\d{2,4}
HEADER_CLASS_RE(cell) ==
    LET a == SkipWs(cell, 1)
        b == SkipToken(cell, a)
        c == SkipWs(cell, b)
        d == SkipWs(cell, c + 1)
        e == DayDot(cell, d)
        f == IF e = 0 THEN 0 ELSE DayDot(cell, e)
    IN  IF b > a /\ IsDash(CharAt(cell, c)) /\ e # 0 /\ f # 0 /\ DigitsAt(cell, f, 2)
        THEN SubSeq(cell, a, b - 1)
        ELSE None

\* \d{1,2}:\d{2} at position i: the position after it, 0 when it does not match.
HourMinEnd(s, i) ==
    IF DigitsAt(s, i, 2) /\ CharAt(s, i + 2) = ":" /\ DigitsAt(s, i + 3, 2) THEN i + 5
    ELSE IF DigitsAt(s, i, 1) /\ CharAt(s, i + 1) = ":" /\ DigitsAt(s, i + 2, 2) THEN i + 4
    ELSE 0

NoMatch == [matched |-> FALSE, g0 |-> <<>>, g1 |-> <<>>, g2 |-> <<>>]

\* TIME_RE anchored at position i.
\* (\d{1,2}:\d{2})\s*[-–]\s*(\d{1,2}:\d{2})
TimeMatchAt(s, i) ==
    LET e1 == HourMinEnd(s, i)
        d  == SkipWs(s, e1)
        g  == SkipWs(s, d + 1)
        e2 == HourMinEnd(s, g)
    IN  IF e1 # 0 /\ IsDash(CharAt(s, d)) /\ e2 # 0
        THEN [matched |-> TRUE, g0 |-> SubSeq(s, i, e2 - 1),
              g1 |-> SubSeq(s, i, e1 - 1), g2 |-> SubSeq(s, g, e2 - 1)]
        ELSE NoMatch

\* TIME_RE.search(cell): the leftmost match.
TIME_RE(cell) ==
    IF \E i \in 1..Len(cell) : TimeMatchAt(cell, i).matched
    THEN TimeMatchAt(cell, CHOOSE i \in 1..Len(cell) :
                               /\ TimeMatchAt(cell, i).matched
                               /\ \A j \in 1..(i - 1) : ~TimeMatchAt(cell, j).matched)
    ELSE NoMatch

\* int() of one or two digits.
RECURSIVE IntOf(_)
IntOf(ds) ==
    IF Len(ds) = 0 THEN 0
    ELSE 10 * IntOf(SubSeq(ds, 1, Len(ds) - 1))
         + ((CHOOSE k \in 1..Len(DigitChars) : DigitChars[k] = ds[Len(ds)]) - 1)

\* f"{n:02d}" for 0 <= n <= 99.
Pad2(n) == <<DigitChars[(n \div 10) + 1], DigitChars[(n % 10) + 1]>>

\* Faulty variant of normalize_time: the hour must have two digits.
NormalizeTimeTwoDigits(t) ==
    IF Len(t) = 0 THEN None
    ELSE LET s == strip(t)
         IN  IF Len(s) = 5 /\ DigitsAt(s, 1, 2) /\ s[3] = ":" /\ DigitsAt(s, 4, 2)
             THEN Pad2(IntOf(SubSeq(s, 1, 2))) \o <<":">> \o SubSeq(s, 4, 5) \o Str(":00")
             ELSE None

\* Faulty variant of normalize_time: the hour is not padded to two digits.
NormalizeTimeUnpadded(t) ==
    IF Len(t) = 0 THEN None
    ELSE LET s == strip(t)
         IN  IF Len(s) = 5 /\ DigitsAt(s, 1, 2) /\ s[3] = ":" /\ DigitsAt(s, 4, 2)
             THEN s \o Str(":00")
             ELSE IF Len(s) = 4 /\ DigitsAt(s, 1, 1) /\ s[2] = ":" /\ DigitsAt(s, 3, 2)
             THEN s \o Str(":00")
             ELSE None

\* normalize_time(t): HH:MM:00, or None.
normalize_time(t) ==
    IF Len(t) = 0 THEN None
    ELSE LET s == strip(t)
         IN  IF Len(s) = 5 /\ DigitsAt(s, 1, 2) /\ s[3] = ":" /\ DigitsAt(s, 4, 2)
             THEN Pad2(IntOf(SubSeq(s, 1, 2))) \o <<":">> \o SubSeq(s, 4, 5) \o Str(":00")
             ELSE IF Len(s) = 4 /\ DigitsAt(s, 1, 1) /\ s[2] = ":" /\ DigitsAt(s, 3, 2)
             THEN Pad2(IntOf(SubSeq(s, 1, 1))) \o <<":">> \o SubSeq(s, 3, 4) \o Str(":00")
             ELSE None

\* re.sub(r"\s+", " ", s)
RECURSIVE CollapseWs(_)
CollapseWs(s) ==
    IF Len(s) = 0 THEN <<>>
    ELSE IF IsSpace(s[1]) THEN <<" ">> \o CollapseWs(lstrip(s))
    ELSE <<s[1]>> \o CollapseWs(Tail(s))

\* Faulty variant of escape_sql: runs of whitespace are not collapsed.
EscapeSqlKeepsRuns(s) ==
    IF s = None THEN <<>>
    ELSE replace(strip(replace(replace(s, "<LF>", <<" ">>), "<CR>", <<" ">>)),
                 "'", <<"'", "'">>)

\* escape_sql(s)
escape_sql(s) ==
    IF s = None THEN <<>>
    ELSE replace(CollapseWs(strip(replace(replace(s, "<LF>", <<" ">>), "<CR>", <<" ">>))),
                 "'", <<"'", "'">>)

\* ------------------------------------------------------------------------
\* Weekday header rows
\* ------------------------------------------------------------------------

\* WEEKDAYS
WEEKDAYS ==
    << Str("poniedzia") \o <<"<l-stroke>">> \o Str("ek"),
       Str("wtorek"),
       <<"<s-acute>">> \o Str("roda"),
       Str("czwartek"),
       Str("pi") \o <<"<a-ogonek>">> \o Str("tek") >>

\* The empty dict.
EmptyMap == <<>>

\* for wd in WEEKDAYS: the index of the first weekday the cleaned cell matches,
\* 0 when the loop ends without a match.
RECURSIVE WeekdayLoop(_, _)
WeekdayLoop(cell_clean, k) ==
    IF k > Len(WEEKDAYS) THEN 0
    ELSE IF WEEKDAYS[k] = cell_clean \/ startswith(cell_clean, SubSeq(WEEKDAYS[k], 1, 3))
    THEN k
    ELSE WeekdayLoop(cell_clean, k + 1)

\* for idx, cell in enumerate(row_values): the mapping after cells k.. of the row.
\* Keys are the 0-based column indexes of the code.
RECURSIVE ColumnLoop(_, _, _)
ColumnLoop(row_values, k, mapping) ==
    IF k > Len(row_values) THEN mapping
    ELSE LET cell == row_values[k]
             wd   == WeekdayLoop(lower(strip(cell)), 1)
         IN  IF Len(cell) = 0 \/ wd = 0
             THEN ColumnLoop(row_values, k + 1, mapping)
             ELSE ColumnLoop(row_values, k + 1,
                             ((k - 1) :> capitalize(WEEKDAYS[wd])) @@ mapping)

\* Faulty variant of AtLeastThree: two weekday cells suffice.
AtLeastTwo(mapping) ==
    IF Cardinality(DOMAIN mapping) >= 2 THEN mapping ELSE EmptyMap

\* Faulty variant of AtLeastThree: the cells must name three different weekdays.
AtLeastThreeDays(mapping) ==
    IF Cardinality({ mapping[c] : c \in DOMAIN mapping }) >= 3 THEN mapping ELSE EmptyMap

\* return mapping if len(mapping) >= 3 else {}
AtLeastThree(mapping) ==
    IF Cardinality(DOMAIN mapping) >= 3 THEN mapping ELSE EmptyMap

find_weekday_columns(row_values) == AtLeastThree(ColumnLoop(row_values, 1, EmptyMap))

\* ------------------------------------------------------------------------
\* One row of a sheet
\* ------------------------------------------------------------------------

UNKNOWN == Str("UNKNOWN")

\* Python's "not x" for None and for text.
Falsy(x) == x = None \/ Len(x) = 0

\* 1) for col_idx, cell in enumerate(row): the token of the first cell that
\* matches HEADER_CLASS_RE, None when no cell does.
RECURSIVE HeaderScan(_, _)
HeaderScan(row, k) ==
    IF k > Len(row) THEN None
    ELSE IF HEADER_CLASS_RE(row[k]) # None THEN HEADER_CLASS_RE(row[k])
    ELSE HeaderScan(row, k + 1)

\* Faulty variant of MappingAfterHeader: a recognized header leaves the
\* mapping in place.
MappingKeptAfterHeader(hdr, weekday_cols) == weekday_cols

\* The weekday mapping after the header scan: a recognized header clears it.
MappingAfterHeader(hdr, weekday_cols) ==
    IF hdr # None THEN EmptyMap ELSE weekday_cols

\* 3) for col_idx, cell in enumerate(row): the match of the first cell that
\* holds a time range.
RECURSIVE TimeScan(_, _)
TimeScan(row, k) ==
    IF k > Len(row) THEN NoMatch
    ELSE IF TIME_RE(row[k]).matched THEN TIME_RE(row[k])
    ELSE TimeScan(row, k + 1)

Min(S) == CHOOSE x \in S : \A y \in S : x <= y

\* Faulty variant of SubjectOf: the cell is not trimmed.
SubjectUntrimmed(row, col_idx) == row[col_idx + 1]

\* subj = row[col_idx].strip()
SubjectOf(row, col_idx) == strip(row[col_idx + 1])

\* Faulty variant of SubjectLoop: the loop ends at the first mapped column
\* that holds no subject.
RECURSIVE SubjectLoopBreaks(_, _, _, _)
SubjectLoopBreaks(row, weekday_cols, todo, proto) ==
    IF todo = {} THEN <<>>
    ELSE LET col_idx == Min(todo)
             subj    == SubjectOf(row, col_idx)
         IN  IF col_idx >= Len(row) \/ Len(subj) = 0 THEN <<>>
             ELSE << [klasa     |-> proto.klasa,
                      dzien     |-> weekday_cols[col_idx],
                      start     |-> proto.start,
                      end       |-> proto.end,
                      przedmiot |-> escape_sql(subj),
                      sheet     |-> proto.sheet,
                      row       |-> proto.row,
                      col       |-> col_idx + 1] >>
                  \o SubjectLoopBreaks(row, weekday_cols, todo \ {col_idx}, proto)

\* for col_idx, weekday in weekday_cols.items(): the entries of the columns in
\* todo, in the order of the dict (ascending column, the order of insertion).
RECURSIVE SubjectLoop(_, _, _, _)
SubjectLoop(row, weekday_cols, todo, proto) ==
    IF todo = {} THEN <<>>
    ELSE LET col_idx == Min(todo)
             rest    == SubjectLoop(row, weekday_cols, todo \ {col_idx}, proto)
         IN  IF col_idx >= Len(row) THEN rest
             ELSE LET subj == SubjectOf(row, col_idx)
                  IN  IF Len(subj) > 0
                      THEN << [klasa     |-> proto.klasa,
                               dzien     |-> weekday_cols[col_idx],
                               start     |-> proto.start,
                               end       |-> proto.end,
                               przedmiot |-> escape_sql(subj),
                               sheet     |-> proto.sheet,
                               row       |-> proto.row,
                               col       |-> col_idx + 1] >> \o rest
                      ELSE rest

\* Faulty variant of ClassOrUnknown: an unset class is left unset.
ClassLeftUnset(cc) == cc

\* current_class after "if not current_class: current_class = "UNKNOWN"".
ClassOrUnknown(cc) == IF Falsy(cc) THEN UNKNOWN ELSE cc

\* An element of errors: which message, of which sheet and row (0 when the
\* message names no row), and the text the message quotes.
Warning(kind, sheet, rownum, text) ==
    [kind |-> kind, sheet |-> sheet, row |-> rownum, text |-> text]

\* Faulty variant of TimeRow: the class is looked at only after the weekday
\* check, so a row skipped for lack of a mapping neither sets UNKNOWN nor
\* adds the missing-class warning.
TimeRowChecksClassLate(row, cc, wc, tm, sheetname, i) ==
    LET cls   == ClassOrUnknown(cc)
        w1    == IF Falsy(cc)
                 THEN << Warning("no_class", sheetname, i + 1, <<>>) >>
                 ELSE <<>>
        start == normalize_time(tm.g1)
        end   == normalize_time(tm.g2)
    IN  IF wc = EmptyMap
        THEN [current_class |-> cc, entries |-> <<>>,
              warnings |-> << Warning("no_weekdays", sheetname, i + 1, <<>>) >>]
        ELSE IF Falsy(start) \/ Falsy(end)
        THEN [current_class |-> cls, entries |-> <<>>,
              warnings |-> w1 \o << Warning("bad_time", sheetname, i + 1, tm.g0) >>]
        ELSE [current_class |-> cls,
              entries |-> SubjectLoop(row, wc, DOMAIN wc,
                                      [klasa |-> cls, start |-> start, end |-> end,
                                       sheet |-> sheetname, row |-> i + 1]),
              warnings |-> w1]

\* Steps 3) of the loop body once a time range was found: the class to use,
\* the warnings and the entries of the row.
TimeRow(row, cc, wc, tm, sheetname, i) ==
    LET cls   == ClassOrUnknown(cc)
        w1    == IF Falsy(cc)
                 THEN << Warning("no_class", sheetname, i + 1, <<>>) >>
                 ELSE <<>>
        start == normalize_time(tm.g1)
        end   == normalize_time(tm.g2)
    IN  IF wc = EmptyMap
        THEN [current_class |-> cls, entries |-> <<>>,
              warnings |-> w1 \o << Warning("no_weekdays", sheetname, i + 1, <<>>) >>]
        ELSE IF Falsy(start) \/ Falsy(end)
        THEN [current_class |-> cls, entries |-> <<>>,
              warnings |-> w1 \o << Warning("bad_time", sheetname, i + 1, tm.g0) >>]
        ELSE [current_class |-> cls,
              entries |-> SubjectLoop(row, wc, DOMAIN wc,
                                      [klasa |-> cls, start |-> start, end |-> end,
                                       sheet |-> sheetname, row |-> i + 1]),
              warnings |-> w1]

\* Faulty variant of RowBody: the weekday check also runs while a mapping is
\* in force.
RowBodyAlwaysDetects(row, scan, current_class, weekday_cols, sheetname, i) ==
    LET hdr == scan.hdr
        cc  == IF hdr # None THEN hdr ELSE current_class
        wc  == IF hdr # None THEN EmptyMap ELSE weekday_cols
        ev1 == IF hdr # None
               THEN << [kind |-> "class", sheet |-> sheetname, row |-> i + 1, class |-> hdr] >>
               ELSE <<>>
    IN  IF scan.cand # EmptyMap
        THEN [current_class |-> cc, weekday_cols |-> scan.cand, entries |-> <<>>,
              warnings |-> <<>>,
              events |-> ev1 \o << [kind |-> "weekdays", sheet |-> sheetname,
                                    row |-> i + 1, cols |-> scan.cand] >>]
        ELSE IF ~scan.tm.matched
        THEN [current_class |-> cc, weekday_cols |-> wc, entries |-> <<>>,
              warnings |-> <<>>, events |-> ev1]
        ELSE LET t == TimeRow(row, cc, wc, scan.tm, sheetname, i)
             IN  [current_class |-> t.current_class, weekday_cols |-> wc,
                  entries |-> t.entries, warnings |-> t.warnings, events |-> ev1]

\* Faulty variant of RowBody: a class header ends the processing of its row.
RowBodyHeaderEndsRow(row, scan, current_class, weekday_cols, sheetname, i) ==
    IF scan.hdr # None
    THEN [current_class |-> scan.hdr, weekday_cols |-> EmptyMap, entries |-> <<>>,
          warnings |-> <<>>,
          events |-> << [kind |-> "class", sheet |-> sheetname, row |-> i + 1,
                         class |-> scan.hdr] >>]
    ELSE IF weekday_cols = EmptyMap /\ scan.cand # EmptyMap
    THEN [current_class |-> current_class, weekday_cols |-> scan.cand, entries |-> <<>>,
          warnings |-> <<>>,
          events |-> << [kind |-> "weekdays", sheet |-> sheetname, row |-> i + 1,
                         cols |-> scan.cand] >>]
    ELSE IF ~scan.tm.matched
    THEN [current_class |-> current_class, weekday_cols |-> weekday_cols, entries |-> <<>>,
          warnings |-> <<>>, events |-> <<>>]
    ELSE LET t == TimeRow(row, current_class, weekday_cols, scan.tm, sheetname, i)
         IN  [current_class |-> t.current_class, weekday_cols |-> weekday_cols,
              entries |-> t.entries, warnings |-> t.warnings, events |-> <<>>]

\* The body of "for i in range(len(df))" for one row: the parser state after
\* the row, and what the row appends to plan, to errors and to the sink.
\* scan holds what the three scans of the cells of the row give: the header
\* scan (hdr), find_weekday_columns (cand) and the time scan (tm).
RowBody(row, scan, current_class, weekday_cols, sheetname, i) ==
    LET hdr  == scan.hdr
        cc   == IF hdr # None THEN hdr ELSE current_class
        wc   == MappingAfterHeader(hdr, weekday_cols)
        ev1  == IF hdr # None
                THEN << [kind |-> "class", sheet |-> sheetname, row |-> i + 1, class |-> hdr] >>
                ELSE <<>>
        cand == scan.cand
        tm   == scan.tm
    IN  IF wc = EmptyMap /\ cand # EmptyMap
        THEN [current_class |-> cc, weekday_cols |-> cand, entries |-> <<>>,
              warnings |-> <<>>,
              events |-> ev1 \o << [kind |-> "weekdays", sheet |-> sheetname,
                                    row |-> i + 1, cols |-> cand] >>]
        ELSE IF ~tm.matched
        THEN [current_class |-> cc, weekday_cols |-> wc, entries |-> <<>>,
              warnings |-> <<>>, events |-> ev1]
        ELSE LET t == TimeRow(row, cc, wc, tm, sheetname, i)
             IN  [current_class |-> t.current_class, weekday_cols |-> wc,
                  entries |-> t.entries, warnings |-> t.warnings, events |-> ev1]

\* ------------------------------------------------------------------------
\* write_sql
\* ------------------------------------------------------------------------

\* Faulty variant of InsertStatement: the subject is escaped once more.
InsertStatementEscapesSubject(n, r) ==
    [kind |-> "insert", id |-> n,
     klasa |-> escape_sql(r.klasa), dzien |-> escape_sql(r.dzien),
     godzina_start |-> r.start, godzina_koniec |-> r.end,
     przedmiot |-> escape_sql(r.przedmiot), sheet |-> escape_sql(r.sheet),
     sheet_row |-> r.row, sheet_col |-> r.col]

\* The INSERT statement of the entry r with id n.
InsertStatement(n, r) ==
    [kind |-> "insert", id |-> n,
     klasa |-> escape_sql(r.klasa), dzien |-> escape_sql(r.dzien),
     godzina_start |-> r.start, godzina_koniec |-> r.end,
     przedmiot |-> r.przedmiot, sheet |-> escape_sql(r.sheet),
     sheet_row |-> r.row, sheet_col |-> r.col]

\* Faulty variant of Inserts: the ids start at 0.
InsertsFromZero(plan_) == [k \in 1..Len(plan_) |-> InsertStatement(k - 1, plan_[k])]

\* for i, r in enumerate(plan, start=1): one INSERT per entry.
Inserts(plan_) == [k \in 1..Len(plan_) |-> InsertStatement(k, plan_[k])]

\* The statements write_sql writes: the comment line with the time stamp,
\* the CREATE TABLE statement, the INSERT statements.
write_sql(plan_) ==
    << [kind |-> "comment"], [kind |-> "create_table_if_not_exists"] >> \o Inserts(plan_)

\* ------------------------------------------------------------------------
\* Inputs
\* ------------------------------------------------------------------------

\* Bounds of the model: sheets of a workbook, rows of a workbook.
MaxSheets == 2

MaxRows == 3

\* The name of the k-th sheet of the workbook; sheet names are unique.
SheetName(k) == Str("Kl'") \o <<DigitChars[k + 1]>>

\* The message of the exception a failed open or read raises.
ErrText == Str("bad file")

E == <<>>

cMat == Str("Mat")

cWF == Str("W'F")

cAng == Str(" j.  ang ")

cBlank == Str("  ")

cTime == Str("7:10-7:55")

cTime2 == Str("8:00 ") \o <<"<en-dash>">> \o Str(" 8:45")

\* "1AT - 1.09.2025"
rHeader == << Str("1AT - 1.09.2025"), E, E, E, E, E >>

\* A class header whose row also holds a time range and two weekday cells.
rHeaderTime ==
    << Str("2bt ") \o <<"<en-dash>">> \o Str(" 12.9.25"), cTime2, Str("pon"), E, cWF,
       Str("Wtorek") >>

\* A class header whose row also holds three weekdays.
rHeaderWeek == << Str("3'c-1.1.25"), Str("pon"), Str(" wto"), Str("czw"), E, E >>

\* The five weekdays in columns 1..5.
rWeek ==
    << E, Str("Pon"), Str(" wtorek "), <<"<S-acute>">> \o Str("RODA"), Str("czw."),
       Str("Pi") \o <<"<a-ogonek>">> \o Str("tek") >>

\* Three columns that name the same weekday, and a time range.
rWeekSame == << cTime2, E, Str("pon."), Str("Pon"), Str("PON"), Str("wt") >>

\* "7:10-7:55" with subjects in columns 1, 2 and 4.
rTime == << cTime, cMat, cWF, E, cAng, cBlank >>

\* The rows a sheet is made of; the input history names a row by its number here.
Rows == << rHeader, rHeaderTime, rHeaderWeek, rWeek, rWeekSame, rTime >>

RowIds == 1..Len(Rows)

\* The three scans of the loop body, applied to the rows from the k-th on.
RECURSIVE ScanFrom(_)
ScanFrom(k) ==
    IF k > Len(Rows) THEN <<>>
    ELSE << [hdr  |-> HeaderScan(Rows[k], 1),
             cand |-> find_weekday_columns(Rows[k]) @@ EmptyMap,
             tm   |-> TimeScan(Rows[k], 1)] >> \o ScanFrom(k + 1)

\* The scans of every row of Rows; they depend on the cells of the row only.
Scans == ScanFrom(1)

\* ------------------------------------------------------------------------
\* State
\* ------------------------------------------------------------------------

VARIABLES
    pc,             \* where App.run is: "start", "sheets", "rows", "parsed", "done"
    xls,            \* xls.sheet_names
    book,           \* the input read so far: per sheet taken, whether xls.parse
                    \* succeeded and the rows processed (their numbers in Rows)
    si,             \* the number of sheets the "for sheetname" loop has taken
    current_class,
    weekday_cols,
    plan,
    errors,
    log,            \* the lines given to log_append / App.append_log, in order
    out,            \* the statements in the output file
    dialog,         \* the message box App.run shows
    arg,            \* the argument of a function applied on its own
    ret             \* the values the function returned, in the order of the calls

vars == <<pc, xls, book, si, current_class, weekday_cols, plan, errors, log, out, dialog,
          arg, ret>>

sheetname == xls[si]

\* The loop variable i: the rows of the current sheet already processed.
i == Len(book[si].rows)

RECURSIVE SumLen(_)
SumLen(b) == IF Len(b) = 0 THEN 0 ELSE Len(b[1].rows) + SumLen(Tail(b))

Init ==
    /\ pc = "start"
    /\ xls = <<>>
    /\ book = <<>>
    /\ si = 0
    /\ current_class = None
    /\ weekday_cols = EmptyMap
    /\ plan = <<>>
    /\ errors = <<>>
    /\ log = <<>>
    /\ out = <<>>
    /\ dialog = [box |-> "none"]
    /\ arg = <<>>
    /\ ret = <<>>

\* App.run up to pd.ExcelFile(path), which succeeds: the workbook has
\* MaxSheets sheets (a sheet may have no rows).
OpenFile ==
    /\ pc = "start"
    /\ xls' = [k \in 1..MaxSheets |-> SheetName(k)]
    /\ log' = Append(log, [kind |-> "start"])
    /\ pc' = "sheets"
    /\ UNCHANGED <<book, si, current_class, weekday_cols, plan, errors, out, dialog>>
    /\ UNCHANGED <<arg, ret>>

\* Faulty variant of OpenFileFails: the exception of pd.ExcelFile(path) is not
\* caught in the parser and reaches the handler of App.run.
OpenFileRaises ==
    /\ pc = "start"
    /\ log' = log \o << [kind |-> "start"], [kind |-> "critical", text |-> ErrText],
                        [kind |-> "traceback"] >>
    /\ dialog' = [box |-> "showerror", text |-> ErrText]
    /\ pc' = "done"
    /\ UNCHANGED <<xls, book, si, current_class, weekday_cols, plan, errors, out>>
    /\ UNCHANGED <<arg, ret>>

\* pd.ExcelFile(path) raises: the message goes to errors and the parser returns.
OpenFileFails ==
    /\ pc = "start"
    /\ log' = Append(log, [kind |-> "start"])
    /\ errors' = Append(errors, Warning("open", <<>>, 0, ErrText))
    /\ pc' = "parsed"
    /\ UNCHANGED <<xls, book, si, current_class, weekday_cols, plan, out, dialog>>
    /\ UNCHANGED <<arg, ret>>

\* Faulty variant of ReadSheet: current_class and weekday_cols are set once,
\* before the loop over the sheets.
ReadSheetKeepsState ==
    /\ pc = "sheets"
    /\ si < Len(xls)
    /\ si' = si + 1
    /\ book' = Append(book, [readable |-> TRUE, rows |-> <<>>])
    /\ pc' = "rows"
    /\ UNCHANGED <<xls, current_class, weekday_cols, plan, errors, log, out, dialog>>
    /\ UNCHANGED <<arg, ret>>

\* xls.parse(sheetname) succeeds: current_class and weekday_cols start afresh.
ReadSheet ==
    /\ pc = "sheets"
    /\ si < Len(xls)
    /\ si' = si + 1
    /\ book' = Append(book, [readable |-> TRUE, rows |-> <<>>])
    /\ current_class' = None
    /\ weekday_cols' = EmptyMap
    /\ pc' = "rows"
    /\ UNCHANGED <<xls, plan, errors, log, out, dialog>>
    /\ UNCHANGED <<arg, ret>>

\* Where the run is after the sheet numbered k: at the top of the loop over
\* the sheets, or, after the last sheet, at "return plan, errors".
AfterSheet(k) == IF k < Len(xls) THEN "sheets" ELSE "parsed"

\* Faulty variant of ReadSheetFails: the failure of one sheet ends the scan.
ReadSheetFailsAndReturns ==
    /\ pc = "sheets"
    /\ si < Len(xls)
    /\ si' = si + 1
    /\ book' = Append(book, [readable |-> FALSE, rows |-> <<>>])
    /\ errors' = Append(errors, Warning("sheet", xls[si + 1], 0, ErrText))
    /\ pc' = "parsed"
    /\ UNCHANGED <<xls, current_class, weekday_cols, plan, log, out, dialog>>
    /\ UNCHANGED <<arg, ret>>

\* xls.parse raises: one warning, and the loop goes on with the next sheet.
ReadSheetFails ==
    /\ pc = "sheets"
    /\ si < Len(xls)
    /\ si' = si + 1
    /\ book' = Append(book, [readable |-> FALSE, rows |-> <<>>])
    /\ errors' = Append(errors, Warning("sheet", xls[si + 1], 0, ErrText))
    /\ pc' = AfterSheet(si + 1)
    /\ UNCHANGED <<xls, current_class, weekday_cols, plan, log, out, dialog>>
    /\ UNCHANGED <<arg, ret>>

\* Faulty variant of ProcessRow: the entries of a row are put before the others.
ProcessRowPrepends ==
    /\ pc = "rows"
    /\ SumLen(book) < MaxRows
    /\ \E id \in RowIds : \E r \in {RowBody(Rows[id], Scans[id], current_class, weekday_cols, sheetname, i)} :
             /\ book' = [book EXCEPT ![si].rows = Append(@, id)]
             /\ current_class' = r.current_class
             /\ weekday_cols' = r.weekday_cols
             /\ plan' = r.entries \o plan
             /\ errors' = errors \o r.warnings
             /\ log' = log \o r.events
    /\ UNCHANGED <<pc, xls, si, out, dialog>>
    /\ UNCHANGED <<arg, ret>>

\* One pass of "for i in range(len(df))".
ProcessRow ==
    /\ pc = "rows"
    /\ SumLen(book) < MaxRows
    /\ \E id \in RowIds : \E r \in {RowBody(Rows[id], Scans[id], current_class, weekday_cols, sheetname, i)} :
             /\ book' = [book EXCEPT ![si].rows = Append(@, id)]
             /\ current_class' = r.current_class
             /\ weekday_cols' = r.weekday_cols
             /\ plan' = plan \o r.entries
             /\ errors' = errors \o r.warnings
             /\ log' = log \o r.events
    /\ UNCHANGED <<pc, xls, si, out, dialog>>
    /\ UNCHANGED <<arg, ret>>

\* The sheet has no more rows.
EndSheet ==
    /\ pc = "rows"
    /\ pc' = AfterSheet(si)
    /\ UNCHANGED <<xls, book, si, current_class, weekday_cols, plan, errors, log, out, dialog>>
    /\ UNCHANGED <<arg, ret>>

\* Faulty variant of Notes: the warnings are logged last first.
NotesReversed(errs) ==
    IF Len(errs) = 0 THEN <<>>
    ELSE << [kind |-> "notes"] >>
         \o [k \in 1..Len(errs) |-> [kind |-> "note", error |-> errs[Len(errs) + 1 - k]]]

\* The lines App.run logs for the warnings.
Notes(errs) ==
    IF Len(errs) = 0 THEN <<>>
    ELSE << [kind |-> "notes"] >> \o [k \in 1..Len(errs) |-> [kind |-> "note", error |-> errs[k]]]

\* App.run after parse_excel_to_plan returned: the file is written if there
\* are entries, the warnings are logged, and a message box is shown.
Finish ==
    /\ pc = "parsed"
    /\ out' = IF Len(plan) > 0 THEN write_sql(plan) ELSE <<>>
    /\ log' = log \o << [kind |-> "count", n |-> Len(plan)],
                        [kind |-> IF Len(plan) > 0 THEN "saved" ELSE "empty"] >>
                  \o Notes(errors)
    /\ dialog' = IF Len(errors) > 0
                 THEN [box |-> "showwarning", records |-> Len(plan), notes |-> Len(errors)]
                 ELSE [box |-> "showinfo", records |-> Len(plan)]
    /\ pc' = "done"
    /\ UNCHANGED <<xls, book, si, current_class, weekday_cols, plan, errors>>
    /\ UNCHANGED <<arg, ret>>

\* App.run when write_sql raises on opening the output file: the except
\* branch logs the failure and its traceback and shows the error box; the
\* lines after write_sql in the try block are not run.
WriteFails ==
    /\ pc = "parsed"
    /\ Len(plan) > 0
    /\ log' = log \o << [kind |-> "count", n |-> Len(plan)],
                        [kind |-> "critical", text |-> ErrText],
                        [kind |-> "traceback"] >>
    /\ dialog' = [box |-> "showerror", text |-> ErrText]
    /\ pc' = "done"
    /\ UNCHANGED <<xls, book, si, current_class, weekday_cols, plan, errors, out>>
    /\ UNCHANGED <<arg, ret>>

Next ==
    \/ OpenFile
    \/ OpenFileFails
    \/ ReadSheet
    \/ ReadSheetFails
    \/ ProcessRow
    \/ EndSheet
    \/ Finish
    \/ WriteFails

Spec == Init /\ [][Next]_vars

\* ------------------------------------------------------------------------
\* Functions applied on their own, to every text of a bounded set
\* ------------------------------------------------------------------------

\* The variables of the run of App.run, which stay as Init sets them.
prog == <<xls, book, si, current_class, weekday_cols, plan, errors, log, out, dialog>>

ProgInit ==
    /\ xls = <<>>
    /\ book = <<>>
    /\ si = 0
    /\ current_class = None
    /\ weekday_cols = EmptyMap
    /\ plan = <<>>
    /\ errors = <<>>
    /\ log = <<>>
    /\ out = <<>>
    /\ dialog = [box |-> "none"]

\* The texts of at most n characters over a set of characters.
Texts(chars, n) == UNION { [1..k -> chars] : k \in 0..n }

\* Bound of the model: the length of an argument of escape_sql.
MaxText == 4

\* The characters of the arguments of escape_sql.
EscapeChars == {"a", "'", " ", "<TAB>", "<LF>", "<CR>"}

\* escape_sql is about to be called with a text or with None.
EscapeInit ==
    /\ pc = "call"
    /\ arg \in Texts(EscapeChars, MaxText) \cup {None}
    /\ ret = <<>>
    /\ ProgInit

\* escape_sql is called: on the argument first, and then once more on what
\* it returned, as write_sql does with a field of an entry.
CallEscapeSql ==
    /\ pc = "call"
    /\ Len(ret) < 2
    /\ ret' = Append(ret, escape_sql(IF ret = <<>> THEN arg ELSE ret[1]))
    /\ UNCHANGED <<pc, arg, prog>>

EscapeNext == CallEscapeSql

EscapeSpec == EscapeInit /\ [][EscapeNext]_vars

\* Bound of the model: the length of an argument of normalize_time.
MaxTime == 6

\* The characters of the arguments of normalize_time.
TimeChars == {"0", "7", ":", " ", "a"}

\* normalize_time is about to be called with a text or with None.
TimeInit ==
    /\ pc = "call"
    /\ arg \in Texts(TimeChars, MaxTime) \cup {None}
    /\ ret = <<>>
    /\ ProgInit

\* normalize_time is called on the argument.
CallNormalizeTime ==
    /\ pc = "call"
    /\ ret = <<>>
    /\ ret' = << normalize_time(arg) >>
    /\ UNCHANGED <<pc, arg, prog>>

TimeNext == CallNormalizeTime

TimeSpec == TimeInit /\ [][TimeNext]_vars

\* Bound of the model: the length of the cell a row body is applied to.
MaxCell == 10

\* The characters of that cell.
CellChars == {"9", ":", "-"}

\* The three scans of the loop body for a row.
ScanOf(row) ==
    [hdr  |-> HeaderScan(row, 1),
     cand |-> find_weekday_columns(row) @@ EmptyMap,
     tm   |-> TimeScan(row, 1)]

\* The mapping the row of the five weekdays sets.
WeekMapping == find_weekday_columns(rWeek)

\* The row whose second cell is the text t and whose other cells are empty.
CellRow(t) == << E, t, E, E, E, E >>

\* The loop body is about to be applied to a row that holds one cell.
CellInit ==
    /\ pc = "call"
    /\ arg \in Texts(CellChars, MaxCell)
    /\ ret = <<>>
    /\ ProgInit

\* The loop body is applied to the row as the second row of a sheet whose
\* first row was the row of the five weekdays: no class is set and the
\* mapping of that row is in force.
CallRowBody ==
    /\ pc = "call"
    /\ ret = <<>>
    /\ \E scan \in { ScanOf(CellRow(arg)) } :
          ret' = << RowBody(CellRow(arg), scan, None, WeekMapping, SheetName(1), 1) >>
    /\ UNCHANGED <<pc, arg, prog>>

CellNext == CallRowBody

CellSpec == CellInit /\ [][CellNext]_vars

\* ------------------------------------------------------------------------
\* Vocabulary of the properties: what a row holds, read off its cells, and
\* what the run recorded for it
\* ------------------------------------------------------------------------

\* The capitalized weekday names.
DayNames ==
    << Str("Poniedzia") \o <<"<l-stroke>">> \o Str("ek"),
       Str("Wtorek"),
       <<"<S-acute>">> \o Str("roda"),
       Str("Czwartek"),
       Str("Pi") \o <<"<a-ogonek>">> \o Str("tek") >>

\* The weekdays a cell is recognized as: the cell, trimmed and in lower case,
\* begins with the first three letters of the weekday's name.
DaysOf(cell) ==
    { d \in 1..Len(DayNames) :
        LET t == lower(strip(cell))
        IN  Len(t) >= 3 /\ SubSeq(t, 1, 3) = SubSeq(lower(DayNames[d]), 1, 3) }

\* Per cell of a row, from the c-th on: the class token the cell matches as a
\* header (None if it is no header), its time range if it holds one, the
\* number of the weekday it is recognized as (0 if none), and whether it is
\* empty once trimmed.
RECURSIVE CellFacts(_, _)
CellFacts(r, c) ==
    IF c > Len(r) THEN <<>>
    ELSE << [ token |-> HEADER_CLASS_RE(r[c]),
              time  |-> TIME_RE(r[c]),
              day   |-> IF DaysOf(r[c]) = {} THEN 0 ELSE CHOOSE d \in DaysOf(r[c]) : TRUE,
              blank |-> Len(strip(r[c])) = 0 ] >>
         \o CellFacts(r, c + 1)

\* What a row holds.
RowFacts(r) ==
    LET cells == CellFacts(r, 1)
    IN  [ cells     |-> cells,
          hasHeader |-> \E c \in 1..Len(r) : cells[c].token # None,
          hasTime   |-> \E c \in 1..Len(r) : cells[c].time.matched,
          nDayCells |-> Cardinality({ c \in 1..Len(r) : cells[c].day # 0 }),
          nDays     |-> Cardinality({ cells[c].day : c \in 1..Len(r) } \ {0}) ]

RECURSIVE FactsFrom(_)
FactsFrom(k) ==
    IF k > Len(Rows) THEN <<>> ELSE << RowFacts(Rows[k]) >> \o FactsFrom(k + 1)

\* What each row of Rows holds.
Facts == FactsFrom(1)

\* The rows (numbers in Rows) of the k-th sheet taken that were processed so far.
RowsOf(k) == book[k].rows

HasHeader(id) == Facts[id].hasHeader

HasTime(id) == Facts[id].hasTime

\* The class tokens of the header cells of the row.
Tokens(id) == { Facts[id].cells[c].token : c \in 1..Len(Rows[id]) } \ {None}

\* The 0-based columns of the row whose cell is recognized as a weekday.
RecognizedColumns(id) == { c \in 0..(Len(Rows[id]) - 1) : Facts[id].cells[c + 1].day # 0 }

\* The row holds at least 3 recognized weekday cells.
Qualifies(id) == Facts[id].nDayCells >= 3

\* The time range of the row: the match of its leftmost cell that holds one.
FirstTime(id) ==
    Facts[id].cells[Min({ c \in 1..Len(Rows[id]) : Facts[id].cells[c].time.matched })].time

\* The capitalized weekday name of the 0-based column c of the row.
DayNameAt(id, c) == DayNames[Facts[id].cells[c + 1].day]

\* The entries and the warnings that name row n (1-based) of the k-th sheet.
EntriesOf(k, n) == SelectSeq(plan, LAMBDA e : e.row = n /\ e.sheet = xls[k])

WarningsOf(k, n) == SelectSeq(errors, LAMBDA w : w.row = n /\ w.sheet = xls[k])

\* The columns (1-based) of a sequence of entries.
ColumnsOf(ents) == { ents[x].col : x \in 1..Len(ents) }

\* The sink was told that row n of the k-th sheet is a weekday row.
WeekdayEvent(k, n) ==
    \E x \in 1..Len(log) :
        log[x].kind = "weekdays" /\ log[x].row = n /\ log[x].sheet = xls[k]

Max(S) == CHOOSE x \in S : \A y \in S : x >= y

\* The last row before row n of the k-th sheet that holds a class header, 0 if none.
LastHeader(k, n) == Max({0} \cup { j \in 1..(n - 1) : HasHeader(RowsOf(k)[j]) })

\* The row whose weekday cells are the mapping in force when row n of the
\* k-th sheet reaches the weekday check: the first row with at least 3
\* recognized weekday cells from the last class header on (that header's row
\* included), 0 if there is none or if row n itself holds a class header.
MapRow(k, n) ==
    LET h == LastHeader(k, n)
        c == { j \in (IF h = 0 THEN 1 ELSE h)..(n - 1) : Qualifies(RowsOf(k)[j]) }
    IN  IF HasHeader(RowsOf(k)[n]) \/ c = {} THEN 0 ELSE Min(c)

\* Row n of the k-th sheet holds a time range and a mapping is in force for it.
TimeRowWithMapping(k, n) == HasTime(RowsOf(k)[n]) /\ MapRow(k, n) # 0

\* The 0-based columns of row n that are mapped to a weekday and hold a
\* subject, for a row with a mapping in force.
SubjectColumns(k, n) ==
    { c \in RecognizedColumns(RowsOf(k)[MapRow(k, n)]) :
        c < Len(Rows[RowsOf(k)[n]]) /\ ~Facts[RowsOf(k)[n]].cells[c + 1].blank }

\* Row n of the k-th sheet was reported as skipped.
Skipped(k, n) ==
    \E x \in 1..Len(errors) :
        /\ errors[x].row = n
        /\ errors[x].sheet = xls[k]
        /\ errors[x].kind \in {"no_weekdays", "bad_time"}

\* The warnings and the entries that name the k-th sheet.
SheetWarnings(k) == SelectSeq(errors, LAMBDA w : w.sheet = xls[k])

SheetEntries(k) == SelectSeq(plan, LAMBDA e : e.sheet = xls[k])

\* The statements of a kind in the output file.
Statements(kind) == SelectSeq(out, LAMBDA st : st.kind = kind)

\* pd.ExcelFile(path) raised.
OpenFailed == pc \in {"parsed", "done"} /\ xls = <<>>

\* ------------------------------------------------------------------------
\* Properties
\* ------------------------------------------------------------------------

\* Row n of the k-th sheet was processed.
Processed(k, n) == k \in 1..Len(book) /\ n \in 1..Len(RowsOf(k))

\* C1: after a row h with a class header, a later row n of the same sheet that
\* holds a time range, with no row holding at least 3 weekday cells from row h
\* to row n, adds exactly one "no weekdays" warning and no entry, whatever
\* mapping was in force before row h.
C1_TimeRowAfterHeaderIsSkipped ==
    \A k \in 1..Len(book) : \A n \in 1..Len(RowsOf(k)) : \A h \in 1..(n - 1) :
        ( /\ HasHeader(RowsOf(k)[h])
          /\ HasTime(RowsOf(k)[n])
          /\ \A j \in h..n : ~Qualifies(RowsOf(k)[j]) )
        => /\ WarningsOf(k, n) = << Warning("no_weekdays", xls[k], n, <<>>) >>
           /\ EntriesOf(k, n) = <<>>

\* C1 happens: a mapping was set by row g, the header of row h came after it,
\* and the time row n after the header was skipped.
C1_Witness ==
    \E k \in 1..Len(book) : \E n \in 1..Len(RowsOf(k)) : \E h \in 1..(n - 1) :
        /\ HasHeader(RowsOf(k)[h])
        /\ HasTime(RowsOf(k)[n])
        /\ \A j \in h..n : ~Qualifies(RowsOf(k)[j])
        /\ \E g \in 1..(h - 1) : WeekdayEvent(k, g)
        /\ WarningsOf(k, n) = << Warning("no_weekdays", xls[k], n, <<>>) >>

\* Row n of the k-th sheet is a time row with a mapping in force, and no row
\* of the sheet up to row n holds a class header.
TimeRowBeforeAnyHeader(k, n) ==
    /\ TimeRowWithMapping(k, n)
    /\ \A j \in 1..n : ~HasHeader(RowsOf(k)[j])

\* A row of the k-th sheet before row n holds a time range and was not
\* consumed as a weekday row.
EarlierTimeRow(k, n) ==
    \E j \in 1..(n - 1) : HasTime(RowsOf(k)[j]) /\ ~WeekdayEvent(k, j)

\* C2 as claimed: every time row with a mapping in force and no class header
\* so far in the sheet has entries of class UNKNOWN only, is not skipped, and
\* adds exactly one warning.
C2_Claimed ==
    \A k \in 1..Len(book) : \A n \in 1..Len(RowsOf(k)) :
        TimeRowBeforeAnyHeader(k, n)
        => /\ \A e \in { EntriesOf(k, n)[x] : x \in 1..Len(EntriesOf(k, n)) } :
                e.klasa = UNKNOWN
           /\ ~Skipped(k, n)
           /\ Len(WarningsOf(k, n)) = 1

\* C2: every time row with a mapping in force and no class header so far in
\* the sheet has one entry of class UNKNOWN per subject column and is not
\* skipped; it adds the one "no class" warning if it is the first time row of
\* the sheet and no warning otherwise.
C2_UnknownClass ==
    \A k \in 1..Len(book) : \A n \in 1..Len(RowsOf(k)) :
        TimeRowBeforeAnyHeader(k, n)
        => \A ents \in { EntriesOf(k, n) } :
            /\ \A x \in 1..Len(ents) : ents[x].klasa = UNKNOWN
            /\ Len(ents) = Cardinality(SubjectColumns(k, n))
            /\ ~Skipped(k, n)
            /\ WarningsOf(k, n) =
                 IF EarlierTimeRow(k, n) THEN <<>>
                 ELSE << Warning("no_class", xls[k], n, <<>>) >>

\* C2 happens: two time rows before any class header, both with entries of
\* class UNKNOWN; the first has the warning and the second has none.
C2_Witness ==
    \E k \in 1..Len(book) : \E n \in 1..Len(RowsOf(k)) : \E m \in 1..(n - 1) :
        /\ TimeRowBeforeAnyHeader(k, n)
        /\ TimeRowBeforeAnyHeader(k, m)
        /\ EntriesOf(k, m) # <<>>
        /\ EntriesOf(k, n) # <<>>
        /\ EntriesOf(k, n)[1].klasa = UNKNOWN
        /\ Len(WarningsOf(k, m)) = 1
        /\ WarningsOf(k, n) = <<>>

\* C3 as claimed: a run whose file could not be opened ends in the error box
\* that carries the message of the failure.
C3_Claimed ==
    (pc = "done" /\ OpenFailed) => (dialog.box = "showerror" /\ dialog.text = ErrText)

\* C3: when the file cannot be opened, no sheet is read and no entry is made;
\* the failure with its message is the only warning returned, and the run
\* ends like any run with warnings: nothing is written, the warning is the
\* last line logged, and the box shown is the warning box with 0 records and
\* 1 note.
C3_OpenFailureIsAWarning ==
    OpenFailed
    => /\ plan = <<>>
       /\ book = <<>>
       /\ errors = << Warning("open", <<>>, 0, ErrText) >>
       /\ pc = "done"
          => /\ dialog = [box |-> "showwarning", records |-> 0, notes |-> 1]
             /\ out = <<>>
             /\ log[Len(log)] = [kind |-> "note", error |-> Warning("open", <<>>, 0, ErrText)]

\* C3 happens: the run of a file that could not be opened has ended.
C3_Witness == pc = "done" /\ OpenFailed /\ dialog.box = "showwarning"

\* C4: a sheet that cannot be read has exactly one warning and no entry; the
\* parse ends only after every sheet was taken; and the step that fails to
\* read a sheet leaves the entries as they are, appends its warning to the
\* warnings as they are, and moves on to the next sheet.
C4_SheetFailureIsSkipped ==
    /\ [](\A k \in 1..Len(book) :
            ~book[k].readable
            => /\ SheetWarnings(k) = << Warning("sheet", xls[k], 0, ErrText) >>
               /\ SheetEntries(k) = <<>>)
    /\ []((pc \in {"parsed", "done"} /\ ~OpenFailed)
            => (si = Len(xls) /\ Len(book) = Len(xls)))
    /\ [][(Len(book') = Len(book) + 1 /\ ~book'[Len(book')].readable)
            => /\ plan' = plan
               /\ errors' = Append(errors, Warning("sheet", xls[si + 1], 0, ErrText))
               /\ si' = si + 1
               /\ pc' = IF si' < Len(xls) THEN "sheets" ELSE "parsed"]_vars

\* C4 happens: the first sheet could not be read, and the run ended with the
\* warning of the first sheet and with entries of the second.
C4_Witness ==
    /\ pc = "done"
    /\ Len(book) >= 2
    /\ ~book[1].readable
    /\ SheetWarnings(1) = << Warning("sheet", xls[1], 0, ErrText) >>
    /\ SheetEntries(2) # <<>>

\* The entry of the example of C5 for a weekday, a subject and a column.
ExampleEntry(k, d, subj, col) ==
    [ klasa |-> Str("1AT"), dzien |-> DayNames[d],
      start |-> Str("07:10:00"), end |-> Str("07:55:00"),
      przedmiot |-> subj, sheet |-> xls[k], row |-> 3, col |-> col ]

\* C5: a time row with a mapping in force has exactly one entry per mapped
\* column whose trimmed cell is not empty, in the order of the columns, with
\* the weekday of the column, the normalized times of the row, the sheet and
\* the 1-based row and column. The rows '1AT - 1.09.2025', five weekdays in
\* columns 1..5, and '7:10-7:55' with subjects in columns 1, 2 and 4 give
\* exactly the three entries of class 1AT on the 1st, 2nd and 4th weekday.
C5_OneEntryPerSubject ==
    \A k \in 1..Len(book) : \A n \in 1..Len(RowsOf(k)) :
        /\ TimeRowWithMapping(k, n)
           => \A ents \in { EntriesOf(k, n) } : \A tm \in { FirstTime(RowsOf(k)[n]) } :
                /\ Len(ents) = Cardinality(SubjectColumns(k, n))
                /\ ColumnsOf(ents) = { c + 1 : c \in SubjectColumns(k, n) }
                /\ \A x \in 1..Len(ents) :
                     /\ ents[x].dzien = DayNameAt(RowsOf(k)[MapRow(k, n)], ents[x].col - 1)
                     /\ ents[x].start = normalize_time(tm.g1)
                     /\ ents[x].end = normalize_time(tm.g2)
                     /\ x > 1 => ents[x - 1].col < ents[x].col
        /\ (n = 3 /\ SubSeq(RowsOf(k), 1, 3) = <<1, 4, 6>>)
           => EntriesOf(k, 3) = << ExampleEntry(k, 1, Str("Mat"), 2),
                                   ExampleEntry(k, 2, Str("W''F"), 3),
                                   ExampleEntry(k, 4, Str("j. ang"), 5) >>

\* C5 happens: the three rows of the example were processed and the time row
\* has three entries, while two of its mapped columns hold no subject.
C5_Witness ==
    \E k \in 1..Len(book) :
        /\ Len(RowsOf(k)) >= 3
        /\ Rows[RowsOf(k)[1]] = rHeader
        /\ Rows[RowsOf(k)[2]] = rWeek
        /\ Rows[RowsOf(k)[3]] = rTime
        /\ Len(EntriesOf(k, 3)) = 3
        /\ Cardinality(RecognizedColumns(RowsOf(k)[2])) = 5

\* C6: a row is reported as skipped exactly if it holds a time range, is not
\* consumed as a weekday row and has no mapping in force; a skipped row has
\* no entry; and a row with an entry is a time row with a mapping in force
\* that has an entry for every one of its subject columns.
C6_AllOrNothing ==
    \A k \in 1..Len(book) : \A n \in 1..Len(RowsOf(k)) :
        \A ents \in { EntriesOf(k, n) } : \A skipped \in { Skipped(k, n) } :
            /\ skipped <=> ( /\ HasTime(RowsOf(k)[n])
                             /\ MapRow(k, n) = 0
                             /\ ~WeekdayEvent(k, n) )
            /\ skipped => ents = <<>>
            /\ ents # <<>>
               => /\ TimeRowWithMapping(k, n)
                  /\ ColumnsOf(ents) = { c + 1 : c \in SubjectColumns(k, n) }

\* C6 happens: one sheet holds a skipped time row without entries and a time
\* row that has entries for all of its two or more subject columns.
C6_Witness ==
    \E k \in 1..Len(book) : \E n, m \in 1..Len(RowsOf(k)) :
        /\ Skipped(k, m)
        /\ EntriesOf(k, m) = <<>>
        /\ TimeRowWithMapping(k, n)
        /\ Cardinality(SubjectColumns(k, n)) >= 2
        /\ Len(EntriesOf(k, n)) = Cardinality(SubjectColumns(k, n))

\* The index of the sheet an entry names.
SheetIndex(e) == CHOOSE k \in 1..Len(xls) : xls[k] = e.sheet

\* C7: when the first row of a sheet is about to be processed, no class is
\* set and the mapping is empty; and every entry carries the class UNKNOWN or
\* the token of a header of a row of its own sheet up to its own row, in a
\* column recognized as a weekday in an earlier row of its own sheet.
C7_StateIsSheetScoped ==
    /\ (pc = "rows" /\ i = 0) => (current_class = None /\ weekday_cols = EmptyMap)
    /\ \A x \in 1..Len(plan) : \A e \in { plan[x] } : \A k \in { SheetIndex(e) } :
          /\ e.row \in 1..Len(RowsOf(k))
          /\ \/ e.klasa = UNKNOWN
             \/ \E j \in 1..e.row : e.klasa \in Tokens(RowsOf(k)[j])
          /\ \E j \in 1..(e.row - 1) : (e.col - 1) \in RecognizedColumns(RowsOf(k)[j])

\* C7 happens: the first sheet had a class header and a weekday row, and the
\* first row of the second sheet is a time row that found neither.
C7_Witness ==
    /\ Len(book) >= 2
    /\ \E n \in 1..Len(RowsOf(1)) : HasHeader(RowsOf(1)[n])
    /\ \E n \in 1..Len(RowsOf(1)) : WeekdayEvent(1, n)
    /\ Len(RowsOf(2)) >= 1
    /\ WarningsOf(2, 1) = << Warning("no_class", xls[2], 1, <<>>),
                             Warning("no_weekdays", xls[2], 1, <<>>) >>

\* C8: the written file holds exactly one CREATE TABLE IF NOT EXISTS statement
\* and one INSERT per entry, in the order of the entries; the k-th INSERT has
\* id k and the fields of the k-th entry.
C8_SequentialIds ==
    out # <<>>
    => \A ins \in { Statements("insert") } :
        /\ Len(Statements("create_table_if_not_exists")) = 1
        /\ Len(ins) = Len(plan)
        /\ \A k \in 1..Len(ins) :
             /\ ins[k].id = k
             /\ ins[k].sheet_row = plan[k].row
             /\ ins[k].sheet_col = plan[k].col
             /\ ins[k].przedmiot = plan[k].przedmiot
             /\ ins[k].godzina_start = plan[k].start

\* C8 happens: a file was written for entries of two different rows, and its
\* last INSERT has the number of entries as its id.
C8_Witness ==
    /\ pc = "done"
    /\ Len(plan) >= 2
    /\ plan[1].row # plan[Len(plan)].row
    /\ Statements("insert") # <<>>
    /\ Statements("insert")[Len(plan)].id = Len(plan)

\* C9: for every row processed, find_weekday_columns (the scan "cand" of the
\* row) gives the empty mapping if fewer than 3 cells of the row are recognized as weekdays, and otherwise
\* the mapping of exactly the recognized columns, each to the capitalized
\* name of its weekday.
C9_WeekdayColumns ==
    \A k \in 1..Len(book) : \A n \in 1..Len(RowsOf(k)) :
        \A id \in { RowsOf(k)[n] } : \A m \in { Scans[id].cand } :
            IF Cardinality(RecognizedColumns(id)) < 3
            THEN m = EmptyMap
            ELSE /\ DOMAIN m = RecognizedColumns(id)
                 /\ \A c \in DOMAIN m : m[c] = DayNameAt(id, c)

\* C9 happens: a row with exactly 2 recognized cells was processed, and a row
\* with 5 recognized cells set the mapping in force.
C9_Witness ==
    /\ pc = "rows"
    /\ \E n \in 1..i : Cardinality(RecognizedColumns(RowsOf(si)[n])) = 2
    /\ \E n \in 1..i :
          /\ Cardinality(RecognizedColumns(RowsOf(si)[n])) = 5
          /\ WeekdayEvent(si, n)
          /\ weekday_cols = Scans[RowsOf(si)[n]].cand

\* C10 as claimed: a row that sets the weekday mapping names at least 3
\* different weekdays.
C10_Claimed ==
    \A k \in 1..Len(book) : \A n \in 1..Len(RowsOf(k)) :
        WeekdayEvent(k, n) => Facts[RowsOf(k)[n]].nDays >= 3

\* C10: a row sets the weekday mapping exactly if no mapping is in force for
\* it and at least 3 of its cells are recognized as weekdays, whether or not
\* the cells name different weekdays.
C10_ThreeColumnsSuffice ==
    \A k \in 1..Len(book) : \A n \in 1..Len(RowsOf(k)) :
        WeekdayEvent(k, n)
        <=> (MapRow(k, n) = 0 /\ Cardinality(RecognizedColumns(RowsOf(k)[n])) >= 3)

\* C10 happens: the row just processed named fewer than 3 different weekdays
\* and set a mapping of 3 or more columns.
C10_Witness ==
    /\ pc = "rows"
    /\ i >= 1
    /\ WeekdayEvent(si, i)
    /\ Facts[RowsOf(si)[i]].nDays < 3
    /\ Cardinality(DOMAIN weekday_cols) >= 3
    /\ DOMAIN weekday_cols = RecognizedColumns(RowsOf(si)[i])

\* The number of single quotes in a text.
CountQuotes(t) == Cardinality({ p \in 1..Len(t) : t[p] = "'" })

\* The class token of a row with a class header: that of its leftmost header cell.
FirstToken(id) ==
    Facts[id].cells[Min({ c \in 1..Len(Rows[id]) : Facts[id].cells[c].token # None })].token

\* The class in force for row n of the k-th sheet as its cells give it: the
\* token of the last row up to row n that holds a class header, UNKNOWN if
\* there is none.
ClassAt(k, n) ==
    LET h == { j \in 1..n : HasHeader(RowsOf(k)[j]) }
    IN  IF h = {} THEN UNKNOWN ELSE FirstToken(RowsOf(k)[Max(h)])

\* C11 as claimed: in the written file the sheet name and the class of an
\* INSERT hold four quotes for every quote of the sheet name and of the
\* header token, and the subject holds two for every quote of its cell.
C11_Claimed ==
    out # <<>>
    => \A x \in 1..Len(plan) : \A e \in { plan[x] } : \A ins \in { out[x + 2] } :
        \A k \in { SheetIndex(e) } :
            /\ CountQuotes(ins.sheet) = 4 * CountQuotes(xls[k])
            /\ CountQuotes(ins.klasa) = 4 * CountQuotes(ClassAt(k, e.row))
            /\ CountQuotes(ins.przedmiot) = 2 * CountQuotes(Rows[RowsOf(k)[e.row]][e.col])

\* C11: the parser stores the class token and the sheet name as they are and
\* the subject with its quotes doubled; the written INSERT holds two quotes
\* for every quote of the sheet name, of the header token and of the subject
\* cell, and its subject is the subject of the entry unchanged.
C11_EscapedOnce ==
    /\ \A x \in 1..Len(plan) : \A e \in { plan[x] } : \A k \in { SheetIndex(e) } :
          /\ e.sheet = xls[k]
          /\ e.klasa = ClassAt(k, e.row)
          /\ CountQuotes(e.przedmiot) = 2 * CountQuotes(Rows[RowsOf(k)[e.row]][e.col])
    /\ out # <<>>
       => \A x \in 1..Len(plan) : \A e \in { plan[x] } : \A ins \in { out[x + 2] } :
            /\ CountQuotes(ins.sheet) = 2 * CountQuotes(e.sheet)
            /\ CountQuotes(ins.klasa) = 2 * CountQuotes(e.klasa)
            /\ CountQuotes(ins.dzien) = CountQuotes(e.dzien)
            /\ ins.przedmiot = e.przedmiot

\* C11 happens: a file was written with an INSERT whose sheet name, class and
\* subject each come from a text with one quote and each hold two.
C11_Witness ==
    /\ pc = "done"
    /\ \E x \in 1..Len(plan) :
          /\ Len(out) >= x + 2
          /\ CountQuotes(xls[SheetIndex(plan[x])]) = 1
          /\ CountQuotes(ClassAt(SheetIndex(plan[x]), plan[x].row)) = 1
          /\ CountQuotes(Rows[RowsOf(SheetIndex(plan[x]))[plan[x].row]][plan[x].col]) = 1
          /\ CountQuotes(out[x + 2].sheet) = 2
          /\ CountQuotes(out[x + 2].klasa) = 2
          /\ CountQuotes(out[x + 2].przedmiot) = 2

\* The whitespace characters.
Whitespace == {" ", "<TAB>", "<LF>", "<CR>"}

\* The quotes of t stand in runs of even length: every quote at an odd place
\* of its run is followed by a quote.
RECURSIVE QuotesPaired(_)
QuotesPaired(t) ==
    IF Len(t) = 0 THEN TRUE
    ELSE IF t[1] # "'" THEN QuotesPaired(Tail(t))
    ELSE Len(t) >= 2 /\ t[2] = "'" /\ QuotesPaired(SubSeq(t, 3, Len(t)))

\* C12: what escape_sql returns holds no newline and no carriage return, no
\* two whitespace characters in a row, and two quotes for every quote of its
\* argument, in runs of even length; and for an argument with a quote,
\* escape_sql applied to what it returned gives a different text.
C12_EscapeSql ==
    /\ Len(ret) >= 1
       => \A r \in { ret[1] } :
            /\ \A p \in 1..Len(r) : r[p] \notin {"<LF>", "<CR>"}
            /\ \A p \in 1..(Len(r) - 1) : ~(r[p] \in Whitespace /\ r[p + 1] \in Whitespace)
            /\ CountQuotes(r) = 2 * CountQuotes(arg)
            /\ QuotesPaired(r)
    /\ (Len(ret) = 2 /\ CountQuotes(arg) > 0) => ret[2] # ret[1]

\* C12 happens: escape_sql was applied twice to a text that holds a quote, a
\* newline and two whitespace characters in a row, and the second result
\* holds four quotes for every quote of the text.
C12_Witness ==
    /\ pc = "call"
    /\ Len(ret) = 2
    /\ CountQuotes(arg) >= 1
    /\ \E p \in 1..Len(arg) : arg[p] = "<LF>"
    /\ \E p \in 1..(Len(arg) - 2) :
          arg[p] = "a" /\ arg[p + 1] \in Whitespace /\ arg[p + 2] \in Whitespace
    /\ CountQuotes(ret[2]) = 4 * CountQuotes(arg)

\* The decimal digits and the number a digit stands for.
Digits == {"0", "1", "2", "3", "4", "5", "6", "7", "8", "9"}

DigitValue(c) == CHOOSE v \in 0..9 : DigitChars[v + 1] = c

\* The text between the first and the last character of t that is not
\* whitespace, both included; the empty text if there is none.
Core(t) ==
    LET solid == { p \in 1..Len(t) : t[p] \notin Whitespace }
    IN  IF solid = {} THEN <<>> ELSE SubSeq(t, Min(solid), Max(solid))

\* t is of the form H:MM or HH:MM.
IsHourMinute(t) ==
    /\ Len(t) \in {4, 5}
    /\ t[Len(t) - 2] = ":"
    /\ t[Len(t) - 1] \in Digits
    /\ t[Len(t)] \in Digits
    /\ \A p \in 1..(Len(t) - 3) : t[p] \in Digits

\* The hour a text of the form H:MM or HH:MM names.
HourOf(t) ==
    IF Len(t) = 4 THEN DigitValue(t[1]) ELSE 10 * DigitValue(t[1]) + DigitValue(t[2])

\* C13: for an argument that is H:MM or HH:MM between whitespace,
\* normalize_time returns the 8 characters HH:MM:00, the hour padded with a
\* zero and the minute digits as they are, so that the hour and the minute
\* can be read back from what it returned; for every other argument, the
\* empty text included, it returns None.
C13_NormalizeTime ==
    Len(ret) = 1
    => \A r \in { ret[1] } : \A t \in { IF arg = None THEN <<>> ELSE Core(arg) } :
         IF IsHourMinute(t)
         THEN /\ Len(r) = 8
              /\ r[1] = DigitChars[(HourOf(t) \div 10) + 1]
              /\ r[2] = DigitChars[(HourOf(t) % 10) + 1]
              /\ 10 * DigitValue(r[1]) + DigitValue(r[2]) = HourOf(t)
              /\ SubSeq(r, 3, 5) = SubSeq(t, Len(t) - 2, Len(t))
              /\ SubSeq(r, 6, 8) = <<":", "0", "0">>
         ELSE r = None

\* C13 happens: normalize_time was called on " 7:07", an hour of one digit
\* after whitespace, and returned "07:07:00".
C13_Witness ==
    /\ pc = "call"
    /\ arg = Str(" 7:07")
    /\ ret = << Str("07:07:00") >>

\* The lines of the log that tell of a discovery, and those that tell of a warning.
Discoveries == SelectSeq(log, LAMBDA l : l.kind \in {"class", "weekdays"})

NoteLines == SelectSeq(log, LAMBDA l : l.kind = "note")

\* The discoveries row n of the k-th sheet makes, read off the cells: its
\* class header, and then its weekday cells if no mapping is in force for it
\* and at least 3 of its cells are recognized.
DiscoveriesOfRow(k, n) ==
    LET id == RowsOf(k)[n]
    IN  (IF HasHeader(id)
         THEN << [kind |-> "class", sheet |-> xls[k], row |-> n, class |-> FirstToken(id)] >>
         ELSE <<>>)
        \o
        (IF MapRow(k, n) = 0 /\ Qualifies(id)
         THEN << [kind |-> "weekdays", sheet |-> xls[k], row |-> n,
                  cols |-> [c \in RecognizedColumns(id) |-> DayNameAt(id, c)]] >>
         ELSE <<>>)

\* The discoveries of the rows 1..n of the k-th sheet, and of the sheets 1..k.
RECURSIVE DiscoveriesOfRows(_, _)
DiscoveriesOfRows(k, n) ==
    IF n = 0 THEN <<>> ELSE DiscoveriesOfRows(k, n - 1) \o DiscoveriesOfRow(k, n)

RECURSIVE DiscoveriesOfSheets(_)
DiscoveriesOfSheets(k) ==
    IF k = 0 THEN <<>>
    ELSE DiscoveriesOfSheets(k - 1) \o DiscoveriesOfRows(k, Len(RowsOf(k)))

\* The run ended in the except branch of App.run.
EndedInError == pc = "done" /\ dialog.box = "showerror"

\* C14 as claimed: once the run has ended without a fatal error, the sink
\* was called once for every warning, and the call for a warning of a row
\* comes before the call for a discovery of any later row of the sheet.
C14_Claimed ==
    (pc = "done" /\ ~EndedInError)
    => /\ Len(NoteLines) = Len(errors)
       /\ \A x, y \in 1..Len(log) :
            ( /\ log[x].kind \in {"class", "weekdays"}
              /\ log[y].kind = "note"
              /\ log[y].error.sheet = log[x].sheet
              /\ log[y].error.row < log[x].row )
            => y < x

\* C14: the sink is called once for every class header and once for every
\* weekday row, in the order of the scan, and the parser never calls it for a
\* warning. The warnings reach the sink only after the parse has returned:
\* App.run passes them one by one, in the order of the warning list, after
\* every discovery, unless write_sql raised, and then it passes none.
C14_SinkCalls ==
    /\ Discoveries = DiscoveriesOfSheets(Len(book))
    /\ (pc # "done" \/ EndedInError) => NoteLines = <<>>
    /\ (pc = "done" /\ ~EndedInError)
       => /\ NoteLines = [x \in 1..Len(errors) |-> [kind |-> "note", error |-> errors[x]]]
          /\ \A x, y \in 1..Len(log) :
               (log[x].kind \in {"class", "weekdays"} /\ log[y].kind = "note") => x < y

\* C14 happens: the run has ended with two warnings or more, and the sink got
\* the warning of a row after the discovery of a later row of the same sheet.
C14_Witness ==
    /\ pc = "done"
    /\ Len(errors) >= 2
    /\ Len(NoteLines) = Len(errors)
    /\ \E x, y \in 1..Len(log) :
          /\ x < y
          /\ log[x].kind \in {"class", "weekdays"}
          /\ log[y].kind = "note"
          /\ log[y].error.sheet = log[x].sheet
          /\ log[y].error.row < log[x].row

\* The sink was told of the class header of row n of the k-th sheet.
ClassEvent(k, n) ==
    \E x \in 1..Len(log) :
        log[x].kind = "class" /\ log[x].row = n /\ log[x].sheet = xls[k]

\* C15: a row with a class header is still checked for weekdays and for a
\* time range: if at least 3 of its cells are recognized as weekdays it is
\* the weekday row, and if not and it holds a time range it adds the one
\* "no weekdays" warning and no entry. A row taken as the weekday row adds
\* no entry and no warning, also when it holds a time range.
C15_HeaderDoesNotEndRow ==
    \A k \in 1..Len(book) : \A n \in 1..Len(RowsOf(k)) : \A id \in { RowsOf(k)[n] } :
        /\ HasHeader(id) => ClassEvent(k, n)
        /\ (HasHeader(id) /\ Qualifies(id)) => WeekdayEvent(k, n)
        /\ (HasHeader(id) /\ ~Qualifies(id) /\ HasTime(id))
           => /\ WarningsOf(k, n) = << Warning("no_weekdays", xls[k], n, <<>>) >>
              /\ EntriesOf(k, n) = <<>>
        /\ WeekdayEvent(k, n) => (EntriesOf(k, n) = <<>> /\ WarningsOf(k, n) = <<>>)

\* C15 happens: a header row with a time range was skipped with the warning,
\* a header row was taken as the weekday row, and a row with a time range
\* was taken as the weekday row and added nothing.
C15_Witness ==
    /\ \E k \in 1..Len(book) : \E n \in 1..Len(RowsOf(k)) :
          /\ HasHeader(RowsOf(k)[n])
          /\ HasTime(RowsOf(k)[n])
          /\ ClassEvent(k, n)
          /\ WarningsOf(k, n) = << Warning("no_weekdays", xls[k], n, <<>>) >>
    /\ \E k \in 1..Len(book) : \E n \in 1..Len(RowsOf(k)) :
          HasHeader(RowsOf(k)[n]) /\ WeekdayEvent(k, n)
    /\ \E k \in 1..Len(book) : \E n \in 1..Len(RowsOf(k)) :
          /\ HasTime(RowsOf(k)[n])
          /\ WeekdayEvent(k, n)
          /\ EntriesOf(k, n) = <<>>
          /\ WarningsOf(k, n) = <<>>

\* The mapping the cells of a row give: its recognized columns, each with
\* the capitalized name of its weekday.
MappingOf(id) == [c \in RecognizedColumns(id) |-> DayNameAt(id, c)]

\* C16: while the rows of a sheet are processed, the mapping in force is
\* that of the first row with at least 3 recognized weekday cells since the
\* last class header, whatever rows followed it; and a step that processes a
\* row without a class header while a mapping is in force leaves the mapping
\* as it is and tells the sink of no weekday row.
C16_MappingIsKept ==
    /\ [](pc = "rows"
          => \A hs \in { { j \in 1..i : HasHeader(RowsOf(si)[j]) } } :
             \A qs \in { { j \in (IF hs = {} THEN 1 ELSE Max(hs))..i :
                             Qualifies(RowsOf(si)[j]) } } :
               weekday_cols = IF qs = {} THEN EmptyMap ELSE MappingOf(RowsOf(si)[Min(qs)]))
    /\ [][( /\ pc = "rows"
            /\ Len(book') = Len(book)
            /\ Len(book'[si].rows) = i + 1
            /\ weekday_cols # EmptyMap
            /\ ~HasHeader(book'[si].rows[i + 1]) )
          => /\ weekday_cols' = weekday_cols
             /\ \A x \in (Len(log) + 1)..Len(log') : log'[x].kind # "weekdays"]_vars

\* C16 happens: row g set the mapping, and a later row n with at least 3
\* recognized weekday cells in other columns, and no class header in between,
\* was processed; the mapping is still that of row g.
C16_Witness ==
    /\ pc = "rows"
    /\ \E g \in 1..i : \E n \in (g + 1)..i :
          /\ WeekdayEvent(si, g)
          /\ \A j \in (g + 1)..n : ~HasHeader(RowsOf(si)[j])
          /\ Qualifies(RowsOf(si)[n])
          /\ RecognizedColumns(RowsOf(si)[n]) # RecognizedColumns(RowsOf(si)[g])
          /\ ~WeekdayEvent(si, n)
          /\ \A j \in (n + 1)..i : ~HasHeader(RowsOf(si)[j])
          /\ DOMAIN weekday_cols = RecognizedColumns(RowsOf(si)[g])

\* s is a prefix of t.
IsPrefix(s, t) == Len(s) <= Len(t) /\ SubSeq(t, 1, Len(s)) = s

\* The index of the sheet a warning names, 0 for the failure to open the file.
WarningSheet(w) == IF w.kind = "open" THEN 0 ELSE CHOOSE k \in 1..Len(xls) : xls[k] = w.sheet

\* C17: every step leaves the entries and the warnings it found as a prefix
\* of the entries and the warnings after it; and entries and warnings stand
\* in the order of discovery: by sheet, within a sheet by row, and the
\* entries of a row by column.
C17_AppendOnly ==
    /\ [][IsPrefix(plan, plan') /\ IsPrefix(errors, errors')]_vars
    /\ [](\A x \in 1..Len(plan) : \A y \in (x + 1)..Len(plan) :
            \/ SheetIndex(plan[x]) < SheetIndex(plan[y])
            \/ /\ SheetIndex(plan[x]) = SheetIndex(plan[y])
               /\ \/ plan[x].row < plan[y].row
                  \/ plan[x].row = plan[y].row /\ plan[x].col < plan[y].col)
    /\ [](\A x \in 1..Len(errors) : \A y \in (x + 1)..Len(errors) :
            \/ WarningSheet(errors[x]) < WarningSheet(errors[y])
            \/ /\ WarningSheet(errors[x]) = WarningSheet(errors[y])
               /\ errors[x].row <= errors[y].row)

\* C17 happens: the run has ended with entries of two rows, several in one
\* row, and with warnings of two sheets.
C17_Witness ==
    /\ pc = "done"
    /\ Len(plan) >= 3
    /\ plan[1].row = plan[2].row
    /\ plan[1].row < plan[Len(plan)].row
    /\ Len(errors) >= 2
    /\ WarningSheet(errors[1]) < WarningSheet(errors[Len(errors)])

\* t is of the form HH:MM:00.
IsClockTime(t) ==
    /\ Len(t) = 8
    /\ \A p \in {1, 2, 4, 5} : t[p] \in Digits
    /\ t[3] = ":"
    /\ SubSeq(t, 6, 8) = <<":", "0", "0">>

\* C18: every entry has one of the five capitalized weekday names, a class
\* that is a text of at least one character, namely the token of the last
\* class header of its sheet up to its row or UNKNOWN if there is none, and
\* a start and an end of the form HH:MM:00.
C18_EntryFields ==
    \A x \in 1..Len(plan) : \A e \in { plan[x] } : \A k \in { SheetIndex(e) } :
        /\ \E d \in 1..Len(DayNames) : e.dzien = DayNames[d]
        /\ e.klasa # None
        /\ Len(e.klasa) > 0
        /\ e.klasa = ClassAt(k, e.row)
        /\ \/ e.klasa = UNKNOWN
           \/ \E j \in 1..e.row : e.klasa \in Tokens(RowsOf(k)[j])
        /\ IsClockTime(e.start)
        /\ IsClockTime(e.end)

\* C18 happens: an entry carries the token of the header of an earlier row of
\* its sheet, the second weekday, and the times of '7:10-7:55'.
C18_Witness ==
    \E x \in 1..Len(plan) :
        /\ plan[x].klasa # UNKNOWN
        /\ \E j \in 1..(plan[x].row - 1) :
              plan[x].klasa \in Tokens(RowsOf(SheetIndex(plan[x]))[j])
        /\ plan[x].dzien = DayNames[2]
        /\ plan[x].start = Str("07:10:00")
        /\ plan[x].end = Str("07:55:00")

\* C19: for every cell, the loop body adds no "bad time" warning; if TIME_RE
\* finds a time range in the cell, normalize_time accepts both of its times,
\* and the row is not skipped: it has the entry of the cell, with both times
\* in the form HH:MM:00. '99:99-9:99' gives 99:99:00 and 09:99:00.
C19_NoBadTime ==
    Len(ret) = 1
    => \A r \in { ret[1] } : \A tm \in { TIME_RE(arg) } :
         /\ \A x \in 1..Len(r.warnings) : r.warnings[x].kind # "bad_time"
         /\ tm.matched
            => /\ normalize_time(tm.g1) # None
               /\ normalize_time(tm.g2) # None
               /\ Len(r.entries) = 1
               /\ IsClockTime(r.entries[1].start)
               /\ IsClockTime(r.entries[1].end)
               /\ SubSeq(r.entries[1].start, 4, 5) = SubSeq(tm.g1, Len(tm.g1) - 1, Len(tm.g1))
               /\ SubSeq(r.entries[1].end, 4, 5) = SubSeq(tm.g2, Len(tm.g2) - 1, Len(tm.g2))
         /\ ~tm.matched => r.entries = <<>>
         /\ arg = Str("99:99-9:99")
            => /\ r.entries[1].start = Str("99:99:00")
               /\ r.entries[1].end = Str("09:99:00")

\* C19 happens: the loop body was applied to the cell '99:99-9:99' and made
\* an entry from 99:99:00 on.
C19_Witness ==
    /\ pc = "call"
    /\ arg = Str("99:99-9:99")
    /\ Len(ret) = 1
    /\ Len(ret[1].entries) = 1
    /\ ret[1].entries[1].start = Str("99:99:00")

\* Row n of the k-th sheet reaches the time check with a time range: it
\* holds one and is not taken as the weekday row.
IsTimeRow(k, n) ==
    /\ HasTime(RowsOf(k)[n])
    /\ ~(MapRow(k, n) = 0 /\ Qualifies(RowsOf(k)[n]))

\* Row n of the k-th sheet is its first time row, and no row of the sheet up
\* to row n holds a class header.
FirstTimeRowBeforeHeader(k, n) ==
    /\ IsTimeRow(k, n)
    /\ \A j \in 1..n : ~HasHeader(RowsOf(k)[j])
    /\ \A j \in 1..(n - 1) : ~IsTimeRow(k, j)

\* The missing-class warnings among a sequence of warnings.
MissingClass(ws) == SelectSeq(ws, LAMBDA w : w.kind = "no_class")

\* C20: the first time row of a sheet, if no class header came before it,
\* adds the missing-class warning, followed by the "no weekdays" warning if
\* no mapping is in force; from then on the class is UNKNOWN until a class
\* header comes, no later time row adds a missing-class warning, and no sheet
\* has more than one.
C20_UnknownIsSticky ==
    /\ \A k \in 1..Len(book) :
          /\ Len(MissingClass(SheetWarnings(k))) <= 1
          /\ \A n \in 1..Len(RowsOf(k)) :
                /\ FirstTimeRowBeforeHeader(k, n)
                   => WarningsOf(k, n) =
                        << Warning("no_class", xls[k], n, <<>>) >>
                        \o (IF MapRow(k, n) = 0
                            THEN << Warning("no_weekdays", xls[k], n, <<>>) >>
                            ELSE <<>>)
                /\ ~FirstTimeRowBeforeHeader(k, n) => MissingClass(WarningsOf(k, n)) = <<>>
    /\ ( /\ pc = "rows"
         /\ \A j \in 1..i : ~HasHeader(RowsOf(si)[j])
         /\ \E j \in 1..i : IsTimeRow(si, j) )
       => current_class = UNKNOWN

\* C20 happens: the first row of the sheet is a time row skipped with both
\* warnings, and after a weekday row a later time row has entries of class
\* UNKNOWN and no warning.
C20_Witness ==
    /\ pc = "rows"
    /\ i >= 3
    /\ current_class = UNKNOWN
    /\ WarningsOf(si, 1) = << Warning("no_class", xls[si], 1, <<>>),
                              Warning("no_weekdays", xls[si], 1, <<>>) >>
    /\ IsTimeRow(si, i)
    /\ EntriesOf(si, i) # <<>>
    /\ EntriesOf(si, i)[1].klasa = UNKNOWN
    /\ WarningsOf(si, i) = <<>>

====
